---- MODULE Spec2Model ----
(***************************************************************************)
(* State-machine model of SQLiteHelper (src/unnamed/part_003): one table   *)
(* handle over one backing table, with its in-process row cache.           *)
(*                                                                         *)
(* A JavaScript / SQLite scalar is a record [t, s]: t is its type and s    *)
(* the text String(value) gives.  A row is a function from a set of column *)
(* names to scalars; a column that is not in its domain is `undefined`.    *)
(***************************************************************************)
EXTENDS Integers, Sequences, FiniteSets, TLC

\* ------------------------------------------------------------------ bounds
MaxRows == 2      \* rows the backing table may hold
MaxCache == 3     \* entries the cache may hold
MaxBatch == 2     \* row-intents in one set call

\* ------------------------------------------------------------------ values
Str(x) == [t |-> "string", s |-> x]
Num(x) == [t |-> "number", s |-> x]
Null == [t |-> "null", s |-> "null"]
Undefined == [t |-> "undefined", s |-> "undefined"]
\* An array, s being its JSON text.
Arr(x) == [t |-> "array", s |-> x]

\* Texts that JSON.parse reads as a number.
Numerals == {"1", "2", "7"}

\* The JSON text of the string "7" (the quotes are part of the text), and the
\* JSON text of the array [1].
Quoted7 == "\"7\""
ArrayOf1 == "[1]"

\* The table of the README example: name text, price int.
Columns == {"name", "price"}

\* Values callers pass for each column, typed as the column is declared, so
\* that SQLite stores and compares them as given. "7" is a text that decodes
\* to a number.
Names == {Str("apple"), Str("7")}
Prices == {Num("1"), Num("2")}
ColumnValues(c) == IF c = "name" THEN Names ELSE Prices

EmptyRow == [c \in {} |-> Null]

\* row[c] in JavaScript: undefined when the key is absent.
Field(row, c) == IF c \in DOMAIN row THEN row[c] ELSE Undefined

\* for (const key in cols) base[key] = cols[key]
Merge(base, cols) ==
    [c \in (DOMAIN base) \cup (DOMAIN cols) |->
        IF c \in DOMAIN cols THEN cols[c] ELSE base[c]]

\* a === b on scalars
StrictEq(a, b) == a = b

\* a == b: null and undefined are equal to each other, a number and a string
\* are compared as numbers, and an array is compared by its toString(), which
\* for the array [1] is the text 1.
LooseEq(a, b) ==
    \/ a = b
    \/ a.t \in {"null", "undefined"} /\ b.t \in {"null", "undefined"}
    \/ /\ {a.t, b.t} = {"number", "string"}
       /\ a.s = b.s
       /\ a.s \in Numerals
    \/ /\ Arr(ArrayOf1) \in {a, b}
       /\ \E x \in {a, b} : x.t \in {"number", "string"} /\ x.s = "1"

\* ------------------------------------------------------------------- codec
\* JSON.parse(value) as _parseKeys uses it: the value is first turned into
\* text; a text that is not JSON makes parse throw and the value is kept.
\* The text of a numeral reads as the number, the text "7" in quotes as the
\* string 7, the text [1] as the array; the array [1] itself turns into the
\* text 1 and reads as the number 1.
Parse(v) ==
    IF v.t = "string" /\ v.s \in Numerals THEN Num(v.s)
    ELSE IF v = Str(Quoted7) THEN Str("7")
    ELSE IF v = Str(ArrayOf1) THEN Arr(ArrayOf1)
    ELSE IF v = Arr(ArrayOf1) THEN Num("1")
    ELSE v

\* _parseKeys: every key of the object is replaced by its parse.
ParseKeys(row) == [c \in DOMAIN row |-> Parse(row[c])]

\* JSON.stringify of a scalar, as a token: strings are quoted.
StringifyValue(v) ==
    IF v.t = "string" THEN <<"quoted", v.s>> ELSE <<"literal", v.s>>

\* JSON.stringify of an object: its key/value members.
Stringify(row) == {<<c, StringifyValue(row[c])>> : c \in DOMAIN row}

\* ----------------------------------------------------------- backing store
\* column = ? in SQLite: NULL equals nothing.
SqlEq(stored, param) == stored.t # "null" /\ param.t # "null" /\ stored = param

\* Indexes of the table rows with column c equal to v.
Matching(tbl, c, v) == {i \in 1..Len(tbl) : SqlEq(tbl[i][c], v)}

Min(S) == CHOOSE x \in S : \A y \in S : x <= y

RECURSIVE SeqOfSet(_)
\* The elements of a set of indexes, ascending.
SeqOfSet(S) == IF S = {} THEN <<>> ELSE <<Min(S)>> \o SeqOfSet(S \ {Min(S)})

\* The rows of tbl at the indexes in S, in table order.
Keep(tbl, S) == [k \in 1..Cardinality(S) |-> tbl[SeqOfSet(S)[k]]]

RemoveAt(s, j) == [k \in 1..(Len(s) - 1) |-> IF k < j THEN s[k] ELSE s[k + 1]]

\* ------------------------------------------------------------ row-intents
\* An element of the argument of set: {columns, where} ("intent"), or a bare
\* mapping without a `columns` key ("bare", the mapping kept in columns).
Intent(cols) == [form |-> "intent", columns |-> cols, hasWhere |-> FALSE, where |-> EmptyRow]
Update(wh, cols) == [form |-> "intent", columns |-> cols, hasWhere |-> TRUE, where |-> wh]
Bare(m) == [form |-> "bare", columns |-> m, hasWhere |-> FALSE, where |-> EmptyRow]

\* set, first loop: a row without `columns` becomes {columns: row}.
Normalize(row) == IF row.form = "bare" THEN Intent(row.columns) ELSE row

\* ------------------------------------------------------- statement builder
\* The separator the where predicates are joined with.
JoinSep == " AND"

\* A structured value is bound as its JSON text, a scalar as it is.
BindValue(v) == IF v.t \in {"object", "array"} THEN Str(v.s) ELSE v

\* _createQuery: value.constructor throws on null and undefined; otherwise an
\* UPDATE when the row has a where and an INSERT when it has none.
CreateQuery(row) ==
    [threw |-> \E c \in DOMAIN row.columns : row.columns[c].t \in {"null", "undefined"},
     verb |-> IF row.hasWhere THEN "UPDATE" ELSE "INSERT",
     columnNames |-> DOMAIN row.columns,
     values |-> [c \in DOMAIN row.columns |-> BindValue(row.columns[c])],
     whereNames |-> IF row.hasWhere THEN DOMAIN row.where ELSE {},
     whereValues |-> IF row.hasWhere THEN row.where ELSE EmptyRow,
     sep |-> JoinSep]

\* db.prepare(query): the statement must be SQL over the table's columns. With
\* two or more predicates the text between them must be the keyword AND on its
\* own (" AND "); an empty column list or an empty WHERE is a syntax error.
Prepares(q) ==
    /\ q.columnNames # {}
    /\ q.columnNames \subseteq Columns
    /\ q.verb = "UPDATE" =>
          /\ q.whereNames # {}
          /\ q.whereNames \subseteq Columns
          /\ Cardinality(q.whereNames) > 1 => q.sep = " AND "

\* The rows an UPDATE's WHERE selects: every predicate holds.
WhereRows(tbl, q) ==
    {i \in 1..Len(tbl) : \A k \in q.whereNames : SqlEq(tbl[i][k], q.whereValues[k])}

\* RunUpdate with the WHERE clause ignored: every row is written.
RunUpdate_IgnoresWhere(tbl, q) ==
    [table |-> [i \in 1..Len(tbl) |-> Merge(tbl[i], q.values)],
     changes |-> Len(tbl)]

\* stmt.run(values, whereValues): the table afterwards and info.changes.
RunUpdate(tbl, q) ==
    [table |-> [i \in 1..Len(tbl) |->
                   IF i \in WhereRows(tbl, q) THEN Merge(tbl[i], q.values) ELSE tbl[i]],
     changes |-> Cardinality(WhereRows(tbl, q))]

RunInsert(tbl, q) ==
    [table |-> Append(tbl, [c \in Columns |->
                   IF c \in q.columnNames THEN q.values[c] ELSE Null]),
     changes |-> 1]

RunStatement(tbl, q) == IF q.verb = "UPDATE" THEN RunUpdate(tbl, q) ELSE RunInsert(tbl, q)

RECURSIVE RunAll(_, _, _, _)
\* The body of the transaction of _set: the statements in order, stopping at
\* the first that throws.
RunAll(queries, i, tbl, infos) ==
    IF i > Len(queries) THEN [ok |-> TRUE, table |-> tbl, infos |-> infos]
    ELSE IF ~Prepares(queries[i]) THEN [ok |-> FALSE, table |-> tbl, infos |-> infos]
    ELSE LET r == RunStatement(tbl, queries[i])
         IN RunAll(queries, i + 1, r.table, Append(infos, r.changes))

\* RunTransaction without the rollback: the statements run before the failing
\* one stay applied.
RunTransaction_NoRollback(tbl, queries) == RunAll(queries, 1, tbl, <<>>)

\* _set: db.transaction rolls the table back when its body throws.
RunTransaction(tbl, queries) ==
    LET r == RunAll(queries, 1, tbl, <<>>)
    IN IF r.ok THEN r ELSE [ok |-> FALSE, table |-> tbl, infos |-> <<>>]

\* ------------------------------------------------------------- exceptions
\* What a call throws: the helper's own SQLiteHelperError with one of its three
\* messages, the TypeError of reading .constructor of null, or the SqliteError
\* of better-sqlite3.
NoError == <<"", "">>
SchemaRequired == <<"SQLiteHelperError", "No columns were provided and the table doesn't exist">>
ConfigConflict == <<"SQLiteHelperError", "The fetchAll options was enabled but caching was not">>
InvalidInput == <<"SQLiteHelperError", "No rows were provided or their type was invalid">>
TypeError == <<"TypeError", "Cannot read properties of null">>
SqliteError == <<"SqliteError", "syntax error">>

\* ------------------------------------------------------------ call results
NoResult == [kind |-> "none", row |-> EmptyRow, rows |-> <<>>, n |-> 0, b |-> FALSE]
RUndefined == [NoResult EXCEPT !.kind = "undefined"]
RRow(r) == [NoResult EXCEPT !.kind = "row", !.row = r]
RRows(rs) == [NoResult EXCEPT !.kind = "rows", !.rows = rs]
RNumber(k) == [NoResult EXCEPT !.kind = "number", !.n = k]
RBoolean(x) == [NoResult EXCEPT !.kind = "boolean", !.b = x]
RThrown == [NoResult EXCEPT !.kind = "error"]
\* A list of column values (in the rows field).
RValues(vs) == [NoResult EXCEPT !.kind = "values", !.rows = vs]

\* ------------------------------------------------------------------- get
\* CacheHit with the scan finding nothing: every get goes to the store.
CacheHit_FindsNothing(cch, c, v) == 0

\* get, cache scan: the first entry whose column equals the value under ==
\* (0 when there is none).
CacheHit(cch, c, v) ==
    LET hits == {i \in 1..Len(cch) : LooseEq(Field(cch[i], c), v)}
    IN IF hits = {} THEN 0 ELSE Min(hits)

\* SELECT * FROM table WHERE c = ? , .get(): the first matching row.
SelectFirst(tbl, c, v) ==
    IF Matching(tbl, c, v) = {} THEN RUndefined
    ELSE RRow(tbl[Min(Matching(tbl, c, v))])

\* get: a hit is the cache entry itself, decoded in place; a miss reads the
\* store, decodes the row and pushes it to the cache. sql lists the statements
\* run against the store.
GetOutcome(tbl, cch, isCaching, c, v) ==
    LET hit == IF isCaching THEN CacheHit(cch, c, v) ELSE 0
        dbValue == IF hit > 0 THEN RRow(cch[hit]) ELSE SelectFirst(tbl, c, v)
        parsed == IF dbValue.kind = "row" THEN RRow(ParseKeys(dbValue.row)) ELSE dbValue
    IN [res |-> parsed,
        hit |-> hit > 0,
        sql |-> IF hit > 0 THEN <<>> ELSE <<"SELECT">>,
        cache |-> IF parsed.kind = "row" /\ isCaching
                  THEN IF hit = 0 THEN Append(cch, parsed.row)
                       ELSE [cch EXCEPT ![hit] = parsed.row]
                  ELSE cch]

\* ------------------------------------------------------------------- set
\* value[key] === row.where[key] for some key of the where.
WhereHits(entry, wh) == \E k \in DOMAIN wh : StrictEq(Field(entry, k), wh[k])

RECURSIVE EvictScan(_, _, _)
\* set, eviction loop: for (j = 0; j < cache.length; j++), a matching entry is
\* spliced out and becomes oldCacheValue; the `break` leaves the key loop only,
\* so the scan goes on at j + 1, which is past the entry that moved into j.
\* st.owners[j] is the set of positions of `values` holding the very object
\* that is cache entry j.
EvictScan(st, wh, j) ==
    IF j > Len(st.cache) THEN st
    ELSE IF WhereHits(st.cache[j], wh)
         THEN EvictScan([cache |-> RemoveAt(st.cache, j),
                         owners |-> RemoveAt(st.owners, j),
                         hasOld |-> TRUE,
                         old |-> st.cache[j],
                         oldOwners |-> st.owners[j],
                         removed |-> st.removed + 1], wh, j + 1)
         ELSE EvictScan(st, wh, j + 1)

\* set, one turn of the second loop, for rows[i] as the caller gave it (a bare
\* mapping has neither where nor columns here). valuesObject is oldCacheValue
\* itself when there is one, so writing the columns into it also changes every
\* element of `values` that is the same object. seen[i] is the cache as it is
\* when the change callback is called for rows[i].
CacheStep(st, row, i, isCaching) ==
    LET start == [cache |-> st.cache, owners |-> st.owners, hasOld |-> FALSE,
                  old |-> EmptyRow, oldOwners |-> {}, removed |-> 0]
        ev == IF isCaching /\ row.form = "intent" /\ row.hasWhere
              THEN EvictScan(start, row.where, 1) ELSE start
        cols == IF row.form = "intent" THEN row.columns ELSE EmptyRow
        valuesObject == Merge(IF ev.hasOld THEN ev.old ELSE EmptyRow, cols)
        same == ev.oldOwners \cup {i}
    IN [cache |-> IF isCaching THEN Append(ev.cache, valuesObject) ELSE ev.cache,
        owners |-> IF isCaching THEN Append(ev.owners, same) ELSE ev.owners,
        values |-> [k \in 1..i |-> IF k \in same THEN valuesObject ELSE st.values[k]],
        cb |-> Append(st.cb, valuesObject),
        seen |-> Append(st.seen, IF isCaching THEN Append(ev.cache, valuesObject)
                                 ELSE ev.cache),
        evicted |-> Append(st.evicted, ev.removed)]

RECURSIVE CacheLoop(_, _, _, _)
CacheLoop(st, rows, i, isCaching) ==
    IF i > Len(rows) THEN st
    ELSE CacheLoop(CacheStep(st, rows[i], i, isCaching), rows, i + 1, isCaching)

\* set(rowOrRows) for an array of row-intents (a single object is the array of
\* that one object): build every statement, run them
\* in one transaction, then update the cache, call the change callback and
\* collect the merged rows. failedAt is 0 or the first row-intent whose
\* statement could not be built or prepared; sql lists the statements run and
\* error names the exception thrown: a TypeError from value.constructor, or the
\* store's SqliteError from db.prepare.
SetOutcome(tbl, cch, isCaching, rows) ==
    LET queries == [i \in 1..Len(rows) |-> CreateQuery(Normalize(rows[i]))]
        threw == {i \in 1..Len(rows) : queries[i].threw}
        tx == RunTransaction(tbl, queries)
        unprepared == {i \in 1..Len(rows) : ~Prepares(queries[i])}
        st == CacheLoop([cache |-> cch, owners |-> [j \in 1..Len(cch) |-> {}],
                         values |-> <<>>, cb |-> <<>>, seen |-> <<>>, evicted |-> <<>>],
                        rows, 1, isCaching)
    IN IF threw # {}
       THEN [table |-> tbl, cache |-> cch, res |-> RThrown, cb |-> <<>>,
             infos |-> <<>>, evicted |-> <<>>, failedAt |-> Min(threw),
             seen |-> <<>>, sql |-> <<>>, error |-> TypeError]
       ELSE IF ~tx.ok
       THEN [table |-> tx.table, cache |-> cch, res |-> RThrown, cb |-> <<>>,
             infos |-> <<>>, evicted |-> <<>>, failedAt |-> Min(unprepared),
             seen |-> <<>>,
             sql |-> [i \in 1..(Min(unprepared) - 1) |-> queries[i].verb],
             error |-> SqliteError]
       ELSE [table |-> tx.table, cache |-> st.cache,
             res |-> IF Len(st.values) = 1 THEN RRow(st.values[1]) ELSE RRows(st.values),
             cb |-> st.cb, infos |-> tx.infos, evicted |-> st.evicted, failedAt |-> 0,
             seen |-> st.seen,
             sql |-> [i \in 1..Len(rows) |-> queries[i].verb],
             error |-> NoError]

\* ----------------------------------------------------------------- ensure
\* ensure: the value get finds, or else the result of set({columns: ensureValue}).
EnsureOutcome(tbl, cch, isCaching, c, v, ensureValue) ==
    LET g == GetOutcome(tbl, cch, isCaching, c, v)
        o == SetOutcome(tbl, g.cache, isCaching, <<Intent(ensureValue)>>)
    IN IF g.res.kind = "row"
       THEN [table |-> tbl, cache |-> g.cache, res |-> g.res, hit |-> g.hit,
             cb |-> <<>>, infos |-> <<>>, evicted |-> <<>>, failedAt |-> 0,
             seen |-> <<>>, sql |-> g.sql, error |-> NoError]
       ELSE [table |-> o.table, cache |-> o.cache, res |-> o.res, hit |-> FALSE,
             cb |-> o.cb, infos |-> o.infos, evicted |-> o.evicted,
             failedAt |-> o.failedAt, seen |-> o.seen, sql |-> g.sql \o o.sql,
             error |-> o.error]

\* ------------------------------------------------------- delete, uncache
\* stringify(value) === stringify(columnObject), columnObject = {c: v}
SameText(entry, c, v) == Stringify(entry) = Stringify([k \in {c} |-> v])

RECURSIVE DeleteScan(_, _, _, _)
\* delete, cache loop: for (i = 0; i < cache.length; i++) splice(i, 1) on a
\* match, and the scan goes on at i + 1.
DeleteScan(cch, c, v, i) ==
    IF i > Len(cch) THEN cch
    ELSE IF SameText(cch[i], c, v) THEN DeleteScan(RemoveAt(cch, i), c, v, i + 1)
    ELSE DeleteScan(cch, c, v, i + 1)

\* DeleteOutcome with a DELETE that stops after the first matching row.
DeleteOutcome_FirstOnly(tbl, cch, isCaching, c, v) ==
    LET first == IF Matching(tbl, c, v) = {} THEN {} ELSE {Min(Matching(tbl, c, v))}
    IN [table |-> Keep(tbl, (1..Len(tbl)) \ first),
        cache |-> IF isCaching THEN DeleteScan(cch, c, v, 1) ELSE cch,
        res |-> RNumber(Cardinality(first)),
        sql |-> <<"DELETE">>]

\* delete: DELETE FROM table WHERE c = ?, then the cache loop; info.changes.
DeleteOutcome(tbl, cch, isCaching, c, v) ==
    [table |-> Keep(tbl, (1..Len(tbl)) \ Matching(tbl, c, v)),
     cache |-> IF isCaching THEN DeleteScan(cch, c, v, 1) ELSE cch,
     res |-> RNumber(Cardinality(Matching(tbl, c, v))),
     sql |-> <<"DELETE">>]

\* UncacheAllOutcome returning whether there was nothing to clear.
UncacheAllOutcome_ReportsWasEmpty(cch, isCaching) ==
    IF ~isCaching THEN [cache |-> cch, res |-> RBoolean(FALSE)]
    ELSE [cache |-> <<>>, res |-> RBoolean(cch = <<>>)]

\* uncache(): cache.length = 0; return !this.cache.length
UncacheAllOutcome(cch, isCaching) ==
    IF ~isCaching THEN [cache |-> cch, res |-> RBoolean(FALSE)]
    ELSE [cache |-> <<>>, res |-> RBoolean(TRUE)]

\* UncacheOutcome removing, when no value is given, only the entries that have
\* the column.
UncacheOutcome_ColumnOnly(cch, isCaching, c, v) ==
    LET same == {i \in 1..Len(cch) : SameText(cch[i], c, v)}
        without == {i \in 1..Len(cch) : c \notin DOMAIN cch[i]}
    IN IF ~isCaching THEN [cache |-> cch, res |-> RBoolean(FALSE)]
       ELSE IF v = Undefined THEN [cache |-> Keep(cch, without), res |-> RBoolean(TRUE)]
       ELSE IF same = {} THEN [cache |-> cch, res |-> RBoolean(FALSE)]
       ELSE [cache |-> RemoveAt(cch, Min(same)), res |-> RBoolean(TRUE)]

\* uncache(c, v): the first entry with the same text is spliced out; when v is
\* undefined the else branch runs, the one uncache() takes.
UncacheOutcome(cch, isCaching, c, v) ==
    LET same == {i \in 1..Len(cch) : SameText(cch[i], c, v)}
    IN IF ~isCaching THEN [cache |-> cch, res |-> RBoolean(FALSE)]
       ELSE IF v = Undefined THEN UncacheAllOutcome(cch, isCaching)
       ELSE IF same = {} THEN [cache |-> cch, res |-> RBoolean(FALSE)]
       ELSE [cache |-> RemoveAt(cch, Min(same)), res |-> RBoolean(TRUE)]

\* ------------------------------------------------------------------ state
VARIABLES
    table,      \* the rows of the backing table, in scan order
    cache,      \* this.cache
    caching,    \* this.caching
    last,       \* the call that has just returned: its arguments and its result
    handle,     \* the handle's life cycle state and the caching option it was given
    schema,     \* the columns of the table in the database file; empty: no table
    changedCB,  \* this.changedCB
    other       \* a second handle on the same table: its cache and its changedCB

vars == <<table, cache, caching, last, handle, schema, changedCB, other>>

\* A call record. cb lists the rows handed to the change callback, infos the
\* info.changes of the statements run, evicted the number of cache entries the
\* eviction loop removed per row-intent; hit tells a get that was served by the
\* cache; sql lists the statements run against the store, error names what was
\* thrown, by[i] is the callback that received cb[i] and seen[i] the cache at
\* that moment; options are the constructor's; pre is the table, the cache and
\* the schema as they were when the call began.
NoCall ==
    [op |-> "new", c |-> "", v |-> Undefined, batch |-> <<>>, res |-> NoResult,
     cb |-> <<>>, infos |-> <<>>, evicted |-> <<>>, failedAt |-> 0, hit |-> FALSE,
     sql |-> <<>>, error |-> NoError, by |-> <<>>, seen |-> <<>>,
     options |-> [caching |-> TRUE, fetchAll |-> FALSE, columns |-> [c \in {} |-> ""]],
     pre |-> [table |-> <<>>, cache |-> <<>>, schema |-> [c \in {} |-> ""]]]

Pre == [table |-> table, cache |-> cache, schema |-> schema]

\* The fields of a second instance as its field initializers leave them: an
\* array and a callback of its own.
NewOther == [cache |-> <<>>, changedCB |-> "noop2"]

\* ------------------------------------------------------------ constructor
\* The column declarations of the example table, and no declarations.
ExampleSchema == [name |-> "text", price |-> "int"]
NoSchema == [c \in {} |-> ""]

\* new SQLiteHelper({columns: {name: "text", price: "int"}})
DefaultOptions == [caching |-> TRUE, fetchAll |-> FALSE, columns |-> ExampleSchema]

\* constructor: this.caching = options.caching || true
Caching(option) == option \/ TRUE

\* constructor: this.fetchAll = options.fetchAll || false
FetchAll(option) == option \/ FALSE

\* TableExists answering yes whatever the file holds.
TableExists_Always(sch) == TRUE

\* SELECT count(*) FROM sqlite_master WHERE type = 'table' AND name = ?
TableExists(sch) == DOMAIN sch # {}

\* GetAll giving the rows last to first.
GetAll_Reversed(tbl) == [i \in 1..Len(tbl) |-> ParseKeys(tbl[Len(tbl) + 1 - i])]

\* getAll: every row of the table, decoded.
GetAll(tbl) == [i \in 1..Len(tbl) |-> ParseKeys(tbl[i])]

\* constructor: look the table up; when it is missing, throw if no columns
\* were given and create it otherwise; then, with fetchAll, throw if caching is
\* off and load every row into the cache otherwise.
ConstructOutcome(sch, tbl, options) ==
    LET isCaching == Caching(options.caching)
        isFetchAll == FetchAll(options.fetchAll)
        lookup == <<"SELECT sqlite_master">>
        ddl == IF TableExists(sch) THEN lookup ELSE Append(lookup, "CREATE TABLE")
        created == IF TableExists(sch) THEN sch ELSE options.columns
    IN IF ~TableExists(sch) /\ DOMAIN options.columns = {}
       THEN [state |-> "Failed", error |-> SchemaRequired, schema |-> sch,
             caching |-> isCaching, cache |-> <<>>, sql |-> lookup]
       ELSE IF isFetchAll /\ ~isCaching
       THEN [state |-> "Failed", error |-> ConfigConflict, schema |-> created,
             caching |-> isCaching, cache |-> <<>>, sql |-> ddl]
       ELSE [state |-> "Ready", error |-> NoError, schema |-> created,
             caching |-> isCaching,
             cache |-> IF isFetchAll THEN GetAll(tbl) ELSE <<>>,
             sql |-> IF isFetchAll THEN Append(ddl, "SELECT") ELSE ddl]

\* ----------------------------------------------------------------- inputs
FullRows == {[name |-> n, price |-> p] : n \in Names, p \in Prices}
OneColumn == {[k \in {c} |-> v] : c \in Columns, v \in Names \cup Prices}
Probes == {r \in OneColumn : \A c \in DOMAIN r : r[c] \in ColumnValues(c)}

\* A row-intent whose statement cannot be built (a null column value) and one
\* whose where has two keys.
NullIntent == Intent([price |-> Null])
TwoKeyIntent == Update([name |-> Str("apple"), price |-> Num("1")], [price |-> Num("2")])

\* The columns the updates write, and the rows given as bare mappings and to
\* ensure.
UpdateColumns == {[price |-> Num("2")], [name |-> Str("7")]}
SomeRows == {[name |-> Str("apple"), price |-> Num("1")], [name |-> Str("7"), price |-> Num("2")]}

Intents ==
    {Intent(r) : r \in FullRows} \cup {Bare(r) : r \in SomeRows}
    \cup {Update(w, cols) : w \in Probes, cols \in UpdateColumns}
    \cup {NullIntent, TwoKeyIntent}

\* The row-intents that batches of several are made of.
BatchIntents ==
    {Intent([name |-> Str("apple"), price |-> Num("1")]),
     Update([name |-> Str("apple")], [price |-> Num("2")]),
     NullIntent, TwoKeyIntent}

RECURSIVE Tuples(_, _)
Tuples(S, n) ==
    IF n = 0 THEN {<<>>} ELSE {Append(t, x) : t \in Tuples(S, n - 1), x \in S}

Batches ==
    {<<r>> : r \in Intents} \cup {<<>>}
    \cup UNION {Tuples(BatchIntents, n) : n \in 2..MaxBatch}

\* The options given to the constructor, the callbacks given to changed, and
\* the arguments of set that are neither an object nor an array.
Options ==
    [caching : BOOLEAN, fetchAll : BOOLEAN, columns : {NoSchema, ExampleSchema}]
Callbacks == {"f", "g"}
Scalars == {Null, Str("apple")}

\* Malformed row-intents: no column at all, given as {columns: {}} and as the
\* bare mapping {}, and the string "a" as columns, which Object.keys and
\* indexing treat as the mapping {"0": "a"}.
EmptyIntent == Intent(EmptyRow)
EmptyBare == Bare(EmptyRow)
StringIntent == Intent([k \in {"0"} |-> Str("a")])
Malformed == {EmptyIntent, EmptyBare, StringIntent}

\* A row-intent whose where is present and has no key: {where: {}, columns}.
EmptyWhereIntent == Update(EmptyRow, [price |-> Num("2")])

\* The batches set is called with on a handle that went through its constructor.
LifeBatches ==
    {<<r>> : r \in Malformed \cup {NullIntent, EmptyWhereIntent}}
    \cup {<<Intent(r)>> : r \in SomeRows}
    \cup {<<Bare([name |-> Str("apple"), price |-> Num("1")])>>,
          <<Update([name |-> Str("apple")], [price |-> Num("2")])>>,
          <<Intent([name |-> Str("apple"), price |-> Num("1")]),
            Update([name |-> Str("apple")], [price |-> Num("2")])>>,
          <<Intent([name |-> Str("apple"), price |-> Num("1")]), EmptyIntent>>}

\* The calls made on two handles of one table: the callbacks given to the
\* second handle are functions of its own, and its cache is kept short.
OtherCallbacks == {"f2"}
MaxOtherCache == 2
TwoBatches ==
    {<<Intent(r)>> : r \in SomeRows}
    \cup {<<Update([name |-> Str("apple")], [price |-> Num("2")])>>}

\* The database files a handle is opened on: without the table, with the
\* table empty, with one stored row, with two.
StoredTables ==
    {<<>>, <<[name |-> Str("7"), price |-> Num("1")]>>,
     <<[name |-> Str("7"), price |-> Num("1")], [name |-> Str("apple"), price |-> Num("2")]>>}

\* Rows whose name is a plain text, a text that is JSON (of a number, of a
\* string, of an array) or an array.
DecodeValues == {Str("apple"), Str("7"), Str(Quoted7), Str(ArrayOf1), Arr(ArrayOf1)}
DecodeRows == {[name |-> n, price |-> p] : n \in DecodeValues, p \in Prices}
\* The names get is asked for: the texts among them.
DecodeProbes == {n \in DecodeValues : n.t = "string"}

\* ------------------------------------------------------------------- init
\* The handle new SQLiteHelper(DefaultOptions) gives on an empty database file.
Init ==
    /\ table = <<>>
    /\ cache = <<>>
    /\ caching = Caching(DefaultOptions.caching)
    /\ last = NoCall
    /\ handle = [state |-> "Ready", caching |-> DefaultOptions.caching]
    /\ schema = ExampleSchema
    /\ changedCB = "noop"
    /\ other = NewOther

\* --------------------------------------------------------------- bulk reads
\* GetAllOutcome answering from the cache when it holds anything.
GetAllOutcome_FromCache(tbl, cch) ==
    [cache |-> cch, res |-> RRows(IF cch # <<>> THEN cch ELSE GetAll(tbl)),
     sql |-> <<"SELECT">>]

\* getAll(): SELECT * FROM table, every row decoded; this.cache is not used.
GetAllOutcome(tbl, cch) ==
    [cache |-> cch, res |-> RRows(GetAll(tbl)), sql |-> <<"SELECT">>]

\* indexes(c): SELECT c FROM table, the value of c of every row as stored.
IndexesOutcome(tbl, cch, c) ==
    [cache |-> cch, res |-> RValues([i \in 1..Len(tbl) |-> tbl[i][c]]),
     sql |-> <<"SELECT">>]

\* Before the constructor has run, on any of the database files.
InitLife ==
    /\ schema \in {NoSchema, ExampleSchema}
    /\ table \in IF TableExists(schema) THEN StoredTables ELSE {<<>>}
    /\ cache = <<>>
    /\ caching = FALSE
    /\ last = NoCall
    /\ handle = [state |-> "Initializing", caching |-> DefaultOptions.caching]
    /\ changedCB = "noop"
    /\ other = NewOther

\* ---------------------------------------------------------------- actions
\* new SQLiteHelper(options): a constructor that throws gives no handle.
Construct(options) ==
    /\ last = NoCall
    /\ \E o \in {ConstructOutcome(schema, table, options)} :
          /\ handle.state = "Initializing"
          /\ handle' = [state |-> o.state, caching |-> options.caching]
          /\ schema' = o.schema
          /\ caching' = o.caching
          /\ cache' = o.cache
          /\ last' = [NoCall EXCEPT !.op = "constructor", !.options = options,
                                    !.sql = o.sql, !.error = o.error,
                                    !.res = IF o.state = "Failed" THEN RThrown ELSE RUndefined,
                                    !.pre = Pre]
          /\ UNCHANGED <<table, changedCB, other>>

\* changed(cb): this.changedCB = cb
Changed(cb) ==
    /\ last = NoCall
    /\ changedCB' = cb
    /\ last' = [NoCall EXCEPT !.op = "changed", !.res = RUndefined, !.pre = Pre]
    /\ UNCHANGED <<table, cache, caching, handle, schema, other>>

\* set(rowOrRows) with an argument that is falsy or whose constructor is
\* neither Object nor Array: the helper throws before anything else.
SetScalar(arg) ==
    /\ last = NoCall
    /\ arg.t \notin {"object", "array"}
    /\ last' = [NoCall EXCEPT !.op = "set", !.v = arg, !.res = RThrown,
                              !.error = InvalidInput, !.pre = Pre]
    /\ UNCHANGED <<table, cache, caching, handle, schema, changedCB, other>>

Get(c, v) ==
    /\ last = NoCall
    /\ \E o \in {GetOutcome(table, cache, caching, c, v)} :
          /\ Len(o.cache) <= MaxCache
          /\ cache' = o.cache
          /\ last' = [NoCall EXCEPT !.op = "get", !.c = c, !.v = v, !.res = o.res, !.hit = o.hit,
                                    !.sql = o.sql, !.pre = Pre]
          /\ UNCHANGED <<table, caching, handle, schema, changedCB, other>>

\* has: !!this.get(columnName, columnValue)
Has(c, v) ==
    /\ last = NoCall
    /\ \E o \in {GetOutcome(table, cache, caching, c, v)} :
          /\ Len(o.cache) <= MaxCache
          /\ cache' = o.cache
          /\ last' = [NoCall EXCEPT !.op = "has", !.c = c, !.v = v,
                                    !.res = RBoolean(o.res.kind = "row"), !.hit = o.hit,
                                    !.sql = o.sql, !.pre = Pre]
          /\ UNCHANGED <<table, caching, handle, schema, changedCB, other>>

Set(rows) ==
    /\ last = NoCall
    /\ \E o \in {SetOutcome(table, cache, caching, rows)} :
          /\ Len(o.table) <= MaxRows
          /\ Len(o.cache) <= MaxCache
          /\ table' = o.table
          /\ cache' = o.cache
          /\ last' = [NoCall EXCEPT !.op = "set", !.batch = rows, !.res = o.res, !.cb = o.cb,
                                    !.infos = o.infos, !.evicted = o.evicted,
                                    !.failedAt = o.failedAt, !.sql = o.sql,
                                    !.error = o.error, !.seen = o.seen,
                                    !.by = [i \in 1..Len(o.cb) |-> changedCB],
                                    !.pre = Pre]
          /\ UNCHANGED <<caching, handle, schema, changedCB, other>>

Ensure(c, v, ensureValue) ==
    /\ last = NoCall
    /\ \E o \in {EnsureOutcome(table, cache, caching, c, v, ensureValue)} :
          /\ Len(o.table) <= MaxRows
          /\ Len(o.cache) <= MaxCache
          /\ table' = o.table
          /\ cache' = o.cache
          /\ last' = [NoCall EXCEPT !.op = "ensure", !.c = c, !.v = v,
                                    !.batch = <<Intent(ensureValue)>>,
                                    !.res = o.res, !.hit = o.hit, !.cb = o.cb,
                                    !.infos = o.infos, !.evicted = o.evicted,
                                    !.failedAt = o.failedAt, !.sql = o.sql,
                                    !.error = o.error, !.seen = o.seen,
                                    !.by = [i \in 1..Len(o.cb) |-> changedCB],
                                    !.pre = Pre]
          /\ UNCHANGED <<caching, handle, schema, changedCB, other>>

Delete(c, v) ==
    /\ last = NoCall
    /\ \E o \in {DeleteOutcome(table, cache, caching, c, v)} :
          /\ table' = o.table
          /\ cache' = o.cache
          /\ last' = [NoCall EXCEPT !.op = "delete", !.c = c, !.v = v, !.res = o.res,
                                    !.sql = o.sql, !.pre = Pre]
          /\ UNCHANGED <<caching, handle, schema, changedCB, other>>

Uncache(c, v) ==
    /\ last = NoCall
    /\ \E o \in {UncacheOutcome(cache, caching, c, v)} :
          /\ cache' = o.cache
          /\ last' = [NoCall EXCEPT !.op = "uncache", !.c = c, !.v = v, !.res = o.res,
                                    !.pre = Pre]
          /\ UNCHANGED <<table, caching, handle, schema, changedCB, other>>

UncacheAll ==
    /\ last = NoCall
    /\ \E o \in {UncacheAllOutcome(cache, caching)} :
          /\ cache' = o.cache
          /\ last' = [NoCall EXCEPT !.op = "uncacheAll", !.res = o.res, !.pre = Pre]
          /\ UNCHANGED <<table, caching, handle, schema, changedCB, other>>

GetAllRows ==
    /\ last = NoCall
    /\ \E o \in {GetAllOutcome(table, cache)} :
          /\ cache' = o.cache
          /\ last' = [NoCall EXCEPT !.op = "getAll", !.res = o.res, !.sql = o.sql,
                                    !.pre = Pre]
          /\ UNCHANGED <<table, caching, handle, schema, changedCB, other>>

Indexes(c) ==
    /\ last = NoCall
    /\ \E o \in {IndexesOutcome(table, cache, c)} :
          /\ cache' = o.cache
          /\ last' = [NoCall EXCEPT !.op = "indexes", !.c = c, !.res = o.res,
                                    !.sql = o.sql, !.pre = Pre]
          /\ UNCHANGED <<table, caching, handle, schema, changedCB, other>>

\* The same methods called on the second handle: they work on its own fields
\* and on the table the two handles share.
OtherChanged(cb) ==
    /\ last = NoCall
    /\ other' = [other EXCEPT !.changedCB = cb]
    /\ last' = [NoCall EXCEPT !.op = "other.changed", !.pre = Pre]
    /\ UNCHANGED <<table, cache, caching, handle, schema, changedCB>>

OtherGet(c, v) ==
    /\ last = NoCall
    /\ \E o \in {GetOutcome(table, other.cache, caching, c, v)} :
          /\ Len(o.cache) <= MaxOtherCache
          /\ other' = [other EXCEPT !.cache = o.cache]
          /\ last' = [NoCall EXCEPT !.op = "other.get", !.c = c, !.v = v, !.res = o.res,
                                    !.hit = o.hit, !.sql = o.sql, !.pre = Pre]
          /\ UNCHANGED <<table, cache, caching, handle, schema, changedCB>>

\* OtherSet on a class whose cache is one array shared by every instance.
OtherSet_SharedCache(rows) ==
    /\ last = NoCall
    /\ \E o \in {SetOutcome(table, other.cache, caching, rows)} :
          /\ Len(o.table) <= MaxRows
          /\ Len(o.cache) <= MaxOtherCache
          /\ table' = o.table
          /\ other' = [other EXCEPT !.cache = o.cache]
          /\ cache' = o.cache
          /\ last' = [NoCall EXCEPT !.op = "other.set", !.batch = rows, !.res = o.res,
                                    !.cb = o.cb, !.infos = o.infos, !.sql = o.sql,
                                    !.error = o.error,
                                    !.by = [i \in 1..Len(o.cb) |-> other.changedCB],
                                    !.pre = Pre]
          /\ UNCHANGED <<caching, handle, schema, changedCB>>

OtherSet(rows) ==
    /\ last = NoCall
    /\ \E o \in {SetOutcome(table, other.cache, caching, rows)} :
          /\ Len(o.table) <= MaxRows
          /\ Len(o.cache) <= MaxOtherCache
          /\ table' = o.table
          /\ other' = [other EXCEPT !.cache = o.cache]
          /\ last' = [NoCall EXCEPT !.op = "other.set", !.batch = rows, !.res = o.res,
                                    !.cb = o.cb, !.infos = o.infos, !.sql = o.sql,
                                    !.error = o.error,
                                    !.by = [i \in 1..Len(o.cb) |-> other.changedCB],
                                    !.pre = Pre]
          /\ UNCHANGED <<cache, caching, handle, schema, changedCB>>

\* The caller takes the result; the handle is ready for the next call. The
\* methods are synchronous, so calls on one handle never overlap.
Return ==
    /\ last # NoCall
    /\ last' = NoCall
    /\ UNCHANGED <<table, cache, caching, handle, schema, changedCB, other>>

Next ==
    \/ \E c \in Columns : \E v \in ColumnValues(c) : Get(c, v)
    \/ \E c \in Columns : \E v \in ColumnValues(c) : Has(c, v)
    \/ \E rows \in Batches : Set(rows)
    \/ \E c \in Columns : \E e \in SomeRows : Ensure(c, e[c], e)
    \/ \E c \in Columns : \E v \in ColumnValues(c) : Delete(c, v)
    \/ \E c \in Columns : \E v \in ColumnValues(c) \cup {Undefined} : Uncache(c, v)
    \/ UncacheAll
    \/ GetAllRows
    \/ \E c \in Columns : Indexes(c)
    \/ Return

Spec == Init /\ [][Next]_vars

\* The life of one handle from its constructor on.
NextLife ==
    \/ \E options \in Options : Construct(options)
    \/ handle.state = "Ready" /\ \E cb \in Callbacks : Changed(cb)
    \/ handle.state = "Ready" /\ \E arg \in Scalars : SetScalar(arg)
    \/ handle.state = "Ready" /\ \E rows \in LifeBatches : Set(rows)
    \/ handle.state = "Ready" /\ \E c \in Columns : \E e \in SomeRows : Get(c, e[c])
    \/ handle.state = "Ready" /\ \E c \in Columns : \E e \in SomeRows : Ensure(c, e[c], e)
    \/ handle.state = "Ready" /\ \E c \in Columns : \E e \in SomeRows : Delete(c, e[c])
    \/ handle.state = "Ready" /\ \E c \in Columns : \E e \in SomeRows : Uncache(c, e[c])
    \/ handle.state = "Ready" /\ UncacheAll
    \/ Return

SpecLife == InitLife /\ [][NextLife]_vars

\* Two handles on one table, their calls interleaved.
NextTwo ==
    \/ Changed("f")
    \/ \E rows \in TwoBatches : Set(rows)
    \/ \E c \in Columns : \E e \in SomeRows : Get(c, e[c])
    \/ \E c \in Columns : \E e \in SomeRows : Ensure(c, e[c], e)
    \/ \E c \in Columns : \E e \in SomeRows : Delete(c, e[c])
    \/ \E c \in Columns : \E e \in SomeRows : Uncache(c, e[c])
    \/ UncacheAll
    \/ \E cb \in OtherCallbacks : OtherChanged(cb)
    \/ \E rows \in TwoBatches : OtherSet(rows)
    \/ \E c \in Columns : \E e \in SomeRows : OtherGet(c, e[c])
    \/ Return

SpecTwo == Init /\ [][NextTwo]_vars

\* Rows of every kind of value are stored, then read back by their price, from
\* the cache or, after uncache(), from the table.
NextDecode ==
    \/ \E r \in DecodeRows : Set(<<Intent(r)>>)
    \/ \E p \in Prices : Get("price", p)
    \/ \E n \in DecodeProbes : Get("name", n)
    \/ UncacheAll
    \/ Return

SpecDecode == Init /\ [][NextDecode]_vars

\* ================================================================== claims
\* The row-intent's statement cannot be built or cannot be prepared.
StatementFails(row) ==
    LET q == CreateQuery(Normalize(row)) IN q.threw \/ ~Prepares(q)

\* The call that has just returned is set with the single row-intent
\* {where: {k: v}, columns: C}.
SingleUpdate(call) ==
    /\ call.op = "set"
    /\ Len(call.batch) = 1
    /\ call.batch[1].form = "intent"
    /\ call.batch[1].hasWhere
    /\ Cardinality(DOMAIN call.batch[1].where) = 1

\* C1: once delete(c, v) has returned, a get(c, v) that follows immediately
\* returns "not found" (the get that follows is get on the table and cache that
\* delete left).
C1_GetAfterDeleteNotFound ==
    last.op = "delete" =>
        GetOutcome(table, cache, caching, last.c, last.v).res.kind = "undefined"

\* C2: every get(c, v) returns what it would return with the cache emptied just
\* before it: the store's first row with c = v, decoded, or "not found".
C2_CacheTransparent ==
    last.op = "get" =>
        last.res = GetOutcome(table, <<>>, caching, last.c, last.v).res

\* C3: has(c, v) is true exactly when the backing table holds a row whose
\* column c equals v.
C3_HasIffStored ==
    last.op = "has" => (last.res.b <=> Matching(table, last.c, last.v) # {})

\* C4: when ensure(c, v, e) with e[c] = v returns, the backing table holds a
\* row whose column c equals v.
C4_EnsureStores ==
    (last.op = "ensure" /\ last.batch[1].columns[last.c] = last.v) =>
        Matching(table, last.c, last.v) # {}

\* C5: a set call in which the statement of some row-intent cannot be built or
\* executed throws, and leaves the backing table and the cache exactly as they
\* were before the call.
C5_SetAtomic ==
    [][(last'.op = "set" /\ \E i \in 1..Len(last'.batch) : StatementFails(last'.batch[i]))
          => (last'.res.kind = "error" /\ table' = table /\ cache' = cache)]_vars

\* C5 witness: a set of two row-intents has thrown on the second one, after a
\* first one whose UPDATE matches a stored row it would change and a cache
\* entry it would evict.
C5_Witness ==
    /\ last.op = "set"
    /\ last.res.kind = "error"
    /\ Len(last.batch) = 2
    /\ last.failedAt = 2
    /\ ~StatementFails(last.batch[1])
    /\ last.batch[1].hasWhere
    /\ \E i \in WhereRows(table, CreateQuery(last.batch[1])) :
          Merge(table[i], last.batch[1].columns) # table[i]
    /\ \E j \in 1..Len(cache) : WhereHits(cache[j], last.batch[1].where)

\* C6: set({where: {k: v}, columns: C}) with a cache entry whose field k is v
\* returns the first such entry (in cache order) with C written over it, and the
\* cache holds that merged row afterwards.
C6_PartialUpdateKeepsFirst ==
    [][(/\ SingleUpdate(last')
        /\ last'.res.kind # "error"
        /\ caching
        /\ \E j \in 1..Len(cache) : WhereHits(cache[j], last'.batch[1].where))
          => LET first == Min({j \in 1..Len(cache) : WhereHits(cache[j], last'.batch[1].where)})
                 merged == Merge(cache[first], last'.batch[1].columns)
             IN /\ last'.res = RRow(merged)
                /\ \E j \in 1..Len(cache') : cache'[j] = merged]_vars

\* C7: set(m) for a bare mapping m changes the table and the cache, calls the
\* change callback and returns as set({columns: m}) does.
C7_BareLikeExplicit ==
    [][(last'.op = "set" /\ Len(last'.batch) = 1 /\ last'.batch[1].form = "bare")
          => LET o == SetOutcome(table, cache, caching, <<Intent(last'.batch[1].columns)>>)
             IN /\ table' = o.table
                /\ cache' = o.cache
                /\ last'.res = o.res
                /\ last'.cb = o.cb]_vars

\* C8: set returns, for a batch of n # 1 row-intents, the sequence of the n
\* merged rows in order, the i-th with the field values of the row handed to
\* the change callback for row-intent i; for n = 1 that single row.
C8_SetReturnsMergedRows ==
    (last.op = "set" /\ last.res.kind # "error") =>
        IF Len(last.batch) = 1
        THEN last.res = RRow(last.cb[1])
        ELSE /\ last.res.kind = "rows"
             /\ Len(last.res.rows) = Len(last.batch)
             /\ \A i \in 1..Len(last.batch) : last.res.rows[i] = last.cb[i]

\* C9: a set whose UPDATE modified no row of the backing table returns false.
C9_FalseWhenNothingModified ==
    (SingleUpdate(last) /\ last.infos = <<0>>) => last.res = RBoolean(FALSE)

Issued(sql, verb) == Cardinality({i \in 1..Len(sql) : sql[i] = verb})

\* C11: when ensure(c, v, e) is called twice in a row on a table that holds no
\* row with c = v, the first call inserts e and returns it, the second call
\* returns the row with the same field values, and one INSERT is issued in all.
C11_EnsureTwiceInsertsOnce ==
    (last.op = "ensure" /\ Matching(last.pre.table, last.c, last.v) = {})
        => LET e == last.batch[1].columns
               second == EnsureOutcome(table, cache, caching, last.c, last.v, e)
           IN /\ last.res = RRow(e)
              /\ second.res = RRow(e)
              /\ Issued(last.sql, "INSERT") + Issued(second.sql, "INSERT") = 1
              /\ Issued(last.sql, "UPDATE") + Issued(second.sql, "UPDATE") = 0

\* The call that has just returned is a set that inserted the one full row it
\* was given as {columns: r}.
SingleInsert(call) ==
    /\ call.op = "set"
    /\ Len(call.batch) = 1
    /\ call.batch[1].form = "intent"
    /\ ~call.batch[1].hasWhere
    /\ DOMAIN call.batch[1].columns = Columns
    /\ call.res.kind = "row"

\* C12: a row inserted with set and then read with get by a column whose value
\* no other stored row has comes back with every field equal to the value that
\* was inserted, whether the read is served by the cache or by the store.
C12_RoundTripExact ==
    SingleInsert(last)
        => LET r == last.batch[1].columns
           IN \A c \in Columns :
                 Cardinality(Matching(table, c, r[c])) = 1
                    => /\ GetOutcome(table, cache, caching, c, r[c]).res = RRow(r)
                       /\ GetOutcome(table, <<>>, caching, c, r[c]).res = RRow(r)

\* The cache held, when the call began, an entry whose field c is the value v.
HeldEntry(call) ==
    \E j \in 1..Len(call.pre.cache) : StrictEq(Field(call.pre.cache[j], call.c), call.v)

\* C13: with caching enabled, a get(c, v) made while the cache holds an entry
\* whose field c equals v runs no statement against the store, leaves the table
\* alone and returns an entry of the cache that matched, the cache keeping its
\* other entries; and after a set({columns: r}) that committed, a get on any
\* column and value of r runs no statement.
C13_CacheHitNoStore ==
    /\ (last.op = "get" /\ caching /\ HeldEntry(last))
          => /\ last.sql = <<>>
             /\ table = last.pre.table
             /\ Len(cache) = Len(last.pre.cache)
             /\ \E j \in 1..Len(cache) :
                   /\ LooseEq(Field(last.pre.cache[j], last.c), last.v)
                   /\ last.res = RRow(cache[j])
                   /\ \A k \in 1..Len(cache) : k # j => cache[k] = last.pre.cache[k]
    /\ (last.op = "set" /\ caching /\ Len(last.batch) = 1 /\ last.res.kind = "row"
           /\ last.batch[1].form = "intent" /\ ~last.batch[1].hasWhere)
          => \A c \in DOMAIN last.batch[1].columns :
                GetOutcome(table, cache, caching, c, last.batch[1].columns[c]).sql = <<>>

\* A get answered from the cache although the table holds no row with c = v.
C13_Witness ==
    /\ last.op = "get" /\ caching /\ HeldEntry(last)
    /\ last.res.kind = "row"
    /\ Matching(table, last.c, last.v) = {}

\* C14: on a handle constructed with caching = false the cache is empty after
\* every call, every get runs a SELECT against the store, and uncache, with or
\* without arguments, returns false.
C14_CachingOptionHonoured ==
    (handle.state = "Ready" /\ ~handle.caching)
        => /\ cache = <<>>
           /\ last.op = "get" => last.sql = <<"SELECT">>
           /\ last.op \in {"uncache", "uncacheAll"} => last.res = RBoolean(FALSE)

\* C15: a constructor given fetchAll = true and caching = false throws the
\* ConfigConflict error and leaves no ready handle; given fetchAll = true and
\* caching = true it succeeds, unless it failed before for want of a schema.
C15_FetchAllNeedsCaching ==
    (last.op = "constructor" /\ last.options.fetchAll)
        => IF ~last.options.caching
           THEN last.error \in {ConfigConflict, SchemaRequired} /\ handle.state = "Failed"
           ELSE last.error # SchemaRequired => handle.state = "Ready"

\* C16: a constructor that finds no table throws SchemaRequired and creates
\* nothing when it was given no columns, and runs one CREATE TABLE with exactly
\* the columns and types it was given and becomes Ready otherwise; one that
\* finds the table runs no CREATE TABLE, keeps its columns and asks for no
\* schema.
C16_SchemaRequiredOrCreate ==
    last.op = "constructor"
        => IF last.pre.schema = NoSchema
           THEN IF last.options.columns = NoSchema
                THEN /\ last.error = SchemaRequired
                     /\ handle.state = "Failed"
                     /\ schema = NoSchema
                     /\ Issued(last.sql, "CREATE TABLE") = 0
                ELSE /\ Issued(last.sql, "CREATE TABLE") = 1
                     /\ schema = last.options.columns
                     /\ handle.state = "Ready"
           ELSE /\ Issued(last.sql, "CREATE TABLE") = 0
                /\ schema = last.pre.schema
                /\ last.error # SchemaRequired
                /\ handle.state = "Ready"

\* A constructor that created the table from the columns it was given.
C16_Witness ==
    /\ last.op = "constructor"
    /\ last.pre.schema = NoSchema
    /\ schema = ExampleSchema
    /\ handle.state = "Ready"

\* C17: a set call with n row-intents that commits calls the callback registered
\* last, and only that one, n times in the order of the row-intents; call i
\* receives the merged row of row-intent i, which carries the columns of that
\* row-intent, after the cache update for row-intent i has put that row in the
\* cache; a set call that throws calls no callback.
C17_ChangeNotification ==
    last.op = "set"
        => IF last.res.kind = "error" THEN last.cb = <<>>
           ELSE /\ Len(last.cb) = Len(last.batch)
                /\ \A i \in 1..Len(last.batch) :
                      /\ last.by[i] = changedCB
                      /\ \A k \in DOMAIN Normalize(last.batch[i]).columns :
                            Field(last.cb[i], k) = Normalize(last.batch[i]).columns[k]
                      /\ caching => /\ last.seen[i] # <<>>
                                    /\ last.seen[i][Len(last.seen[i])] = last.cb[i]

\* C18: on a handle with caching enabled uncache() leaves the cache empty and
\* returns true whatever the cache held, a second uncache() right after it
\* changes nothing and returns true, and the table is as it was.
C18_UncacheAllIdempotent ==
    (last.op = "uncacheAll" /\ caching)
        => /\ cache = <<>>
           /\ last.res = RBoolean(TRUE)
           /\ table = last.pre.table
           /\ UncacheAllOutcome(cache, caching) = [cache |-> cache, res |-> RBoolean(TRUE)]

\* uncache() on a cache of several entries, over a table that has rows.
C18_Witness ==
    /\ last.op = "uncacheAll" /\ caching
    /\ Len(last.pre.cache) >= 2
    /\ table # <<>>

\* C19: delete(c, v) leaves in the table exactly the rows whose column c is not
\* v, in their order, and returns the number of rows it removed, whatever the
\* cache holds.
C19_DeleteRemovesMatching ==
    last.op = "delete"
        => LET Stays(r) == ~SqlEq(r[last.c], last.v)
           IN /\ table = SelectSeq(last.pre.table, Stays)
              /\ last.res = RNumber(Len(last.pre.table) - Len(table))

\* A delete that removed two rows at once while the cache held entries.
C19_Witness ==
    /\ last.op = "delete"
    /\ last.res = RNumber(2)
    /\ last.pre.cache # <<>>

\* The call is a set whose argument is neither an object nor an array, or has
\* a row-intent whose columns are empty or not a plain mapping.
MalformedCall(call) ==
    /\ call.op = "set"
    /\ \/ call.v # Undefined
       \/ \E i \in 1..Len(call.batch) : call.batch[i] \in Malformed

\* C20: a set call with a malformed argument throws the helper's InvalidInput
\* error and leaves the table and the cache as they were.
C20_MalformedRejected ==
    MalformedCall(last)
        => /\ last.error = InvalidInput
           /\ table = last.pre.table
           /\ cache = last.pre.cache

\* The call that has just returned is set with the single row-intent
\* {where: W, columns: C}, W with one key or more, C without a null value.
WhereUpdate(call) ==
    /\ call.op = "set"
    /\ Len(call.batch) = 1
    /\ call.batch[1].form = "intent"
    /\ call.batch[1].hasWhere
    /\ DOMAIN call.batch[1].where # {}
    /\ \A c \in DOMAIN call.batch[1].columns :
          call.batch[1].columns[c].t \notin {"null", "undefined"}

\* C21: a row-intent with a where of one key or more gives a well-formed UPDATE
\* (columns bound first, where values after, predicates joined by AND); the set
\* does not throw and writes the columns to exactly the rows of the table that
\* match every where key.
C21_WhereIsConjunction ==
    WhereUpdate(last)
        => LET W == last.batch[1].where
               C == last.batch[1].columns
               Hit(r) == \A k \in DOMAIN W : SqlEq(r[k], W[k])
           IN /\ last.res.kind # "error"
              /\ last.sql = <<"UPDATE">>
              /\ table = [i \in 1..Len(last.pre.table) |->
                            IF Hit(last.pre.table[i])
                            THEN Merge(last.pre.table[i], C) ELSE last.pre.table[i]]

\* C23: every column value is bound as it is when it is a scalar, null
\* included, and as its JSON text when it is an object or an array: a set that
\* inserts {columns: C} does not throw and appends the row of the bound values,
\* NULL in the columns C does not name.
C23_ScalarsBoundAsIs ==
    (last.op = "set" /\ Len(last.batch) = 1 /\ last.batch[1].form = "intent"
       /\ ~last.batch[1].hasWhere
       /\ DOMAIN last.batch[1].columns # {}
       /\ DOMAIN last.batch[1].columns \subseteq Columns)
        => LET C == last.batch[1].columns
           IN /\ last.res.kind # "error"
              /\ table = Append(last.pre.table,
                                [c \in Columns |-> IF c \in DOMAIN C
                                                   THEN IF C[c].t \in {"object", "array"}
                                                        THEN Str(C[c].s) ELSE C[c]
                                                   ELSE Null])

\* C22: decoding a row never throws and decoding it again changes nothing, for
\* rows of every kind of value; so a get that is served by a cache entry and the
\* same get made again return the same field values.
C22_DecodeIdempotent ==
    /\ \A j \in 1..Len(cache) : ParseKeys(ParseKeys(cache[j])) = ParseKeys(cache[j])
    /\ \A i \in 1..Len(table) : ParseKeys(ParseKeys(table[i])) = ParseKeys(table[i])
    /\ (last.op = "get" /\ last.hit)
          => GetOutcome(table, cache, caching, last.c, last.v).res = last.res

\* C24: a set with a row-intent whose where is present and has no key throws
\* the helper's InvalidInput error, runs no UPDATE, and leaves every row of the
\* table and the cache as they were.
C24_EmptyWhereRejected ==
    (last.op = "set" /\ \E i \in 1..Len(last.batch) :
        last.batch[i].hasWhere /\ DOMAIN last.batch[i].where = {})
        => /\ last.error = InvalidInput
           /\ Issued(last.sql, "UPDATE") = 0
           /\ table = last.pre.table
           /\ cache = last.pre.cache

\* C25: a get(c, v) is served by the cache only when some entry's field c is v
\* under strict equality (same type, same value), and then by the first such
\* entry in cache order.
C25_StrictCacheLookup ==
    (last.op = "get" /\ last.hit)
        => /\ HeldEntry(last)
           /\ LET first == Min({j \in 1..Len(last.pre.cache) :
                                  StrictEq(Field(last.pre.cache[j], last.c), last.v)})
              IN last.res = RRow(cache[first])

\* The call that has just returned is a set of one row-intent with a where that
\* was committed on a caching handle.
CommittedUpdate(call) ==
    /\ call.op = "set"
    /\ Len(call.batch) = 1
    /\ call.batch[1].form = "intent"
    /\ call.batch[1].hasWhere
    /\ call.res.kind # "error"
    /\ caching

\* The positions of the cache, as it was before the call, of the first entry
\* that matches each key of the where.
FirstMatches(call) ==
    LET W == call.batch[1].where
        Hits(k) == {j \in 1..Len(call.pre.cache) :
                      StrictEq(Field(call.pre.cache[j], k), W[k])}
    IN {Min(Hits(k)) : k \in {x \in DOMAIN W : Hits(x) # {}}}

\* C26: a committed set with a where removes from the cache at most the first
\* entry matching each where key; every other entry, later matching entries
\* included, is still in the cache with the same fields and in the same order
\* relative to the others.
C26_EvictsFirstMatchOnly ==
    CommittedUpdate(last)
        => LET old == last.pre.cache
               others == (1..Len(old)) \ FirstMatches(last)
           IN /\ Len(cache) >= Cardinality(others) + 1
              /\ \A j \in others : \E m \in 1..Len(cache) : cache[m] = old[j]
              /\ \A i, j \in others :
                    i < j => \E m, n \in 1..Len(cache) :
                                m < n /\ cache[m] = old[i] /\ cache[n] = old[j]

\* C27: after delete(c, v) or uncache(c, v) has returned, no cache entry has the
\* JSON text of the one-field object {c: v}, whatever the cache held, and
\* uncache(c, v) returns true exactly when the cache held such an entry.
C27_RemovesEveryMatch ==
    (last.op \in {"delete", "uncache"} /\ caching)
        => /\ \A j \in 1..Len(cache) : ~SameText(cache[j], last.c, last.v)
           /\ last.op = "uncache"
                 => last.res = RBoolean(\E j \in 1..Len(last.pre.cache) :
                                            SameText(last.pre.cache[j], last.c, last.v))

\* C28: a committed set with a where that matches the cache entry at position p
\* leaves the merged row at position p and every other entry where it was.
C28_ReplacedInPlace ==
    (CommittedUpdate(last) /\ FirstMatches(last) # {})
        => LET old == last.pre.cache
               p == Min(FirstMatches(last))
           IN /\ Len(cache) = Len(old)
              /\ cache[p] = Merge(old[p], last.batch[1].columns)
              /\ \A m \in 1..Len(old) : m # p => cache[m] = old[m]

C30_BulkReadsBypassCache ==
    last.op \in {"getAll", "indexes"}
        => /\ cache = last.pre.cache
           /\ table = last.pre.table
           /\ Len(last.res.rows) = Len(table)
           /\ \A i \in 1..Len(table) :
                 last.res.rows[i] = IF last.op = "getAll"
                                    THEN [c \in Columns |-> Parse(table[i][c])]
                                    ELSE table[i][last.c]

\* getAll() on a table with rows while the cache holds an entry that is the
\* decoded form of no row of the table.
C30_Witness ==
    /\ last.op = "getAll"
    /\ table # <<>>
    /\ \E j \in 1..Len(cache) : \A i \in 1..Len(table) : cache[j] # ParseKeys(table[i])

\* The methods of the first handle that C31 names, and those of the second.
HandleOps == {"get", "set", "delete", "ensure", "uncache", "uncacheAll", "changed"}
OtherOps == {"other.get", "other.set", "other.changed"}

\* C31: handles do not interfere in memory: a call on one handle leaves the
\* other handle's cache and registered callback as they were, and the rows a
\* set hands out go to the callback of the handle it was called on, never to
\* the other handle's.
C31_HandlesIndependent ==
    [][/\ last'.op \in HandleOps
          => /\ other' = other
             /\ \A i \in 1..Len(last'.by) :
                   last'.by[i] = changedCB /\ last'.by[i] # other.changedCB
       /\ last'.op \in OtherOps
          => /\ cache' = cache /\ changedCB' = changedCB
             /\ \A i \in 1..Len(last'.by) :
                   last'.by[i] = other.changedCB /\ last'.by[i] # changedCB]_vars

\* A set on the first handle that changed its cache and called its callback
\* while the second handle holds a cache of its own and its own callback.
C31_Witness ==
    /\ last.op = "set" /\ last.cb # <<>>
    /\ cache # last.pre.cache
    /\ other.cache # <<>> /\ other.cache # cache
    /\ other.changedCB = "f2" /\ changedCB = "f"

\* C32: after a committed set of one row-intent {where: {k: v}, columns: C} on
\* a caching handle, every cache entry whose field k is v has, for every column
\* of C, the value the UPDATE wrote: no entry matching the where is left with
\* the values it had before, whatever its position in the cache.
C32_NoStaleMatchLeft ==
    (CommittedUpdate(last) /\ Cardinality(DOMAIN last.batch[1].where) = 1)
        => LET W == last.batch[1].where
               C == last.batch[1].columns
           IN \A j \in 1..Len(cache) :
                 (\A k \in DOMAIN W : StrictEq(Field(cache[j], k), W[k]))
                    => \A c \in DOMAIN C : Field(cache[j], c) = C[c]

\* Every entry of cache cch has, for every column, the value some row of
\* table tbl has.
Faithful(cch, tbl) ==
    \A j \in 1..Len(cch) :
       \E i \in 1..Len(tbl) : \A c \in Columns : Field(cch[j], c) = tbl[i][c]

\* C33: a committed set on a cache whose entries all stand for rows of the
\* table leaves such a cache: it adds no entry for an UPDATE that changed no
\* row and no entry that lacks columns of its row; so from the empty cache on,
\* committed sets keep every cache entry equal, column by column, to some row
\* of the table.
C33_NoPhantomOrPartial ==
    (last.op = "set" /\ last.res.kind # "error" /\ caching
        /\ Faithful(last.pre.cache, last.pre.table))
        => Faithful(cache, table)

C35_GetBoundsCache ==
    (last.op = "get" /\ caching)
        => /\ (last.hit \/ last.res.kind # "row") => Len(cache) = Len(last.pre.cache)
           /\ Len(cache) <= Len(last.pre.cache) + 1
           /\ last.res.kind = "row"
                 => LET again == GetOutcome(table, cache, caching, last.c, last.v)
                    IN again.hit /\ Len(again.cache) = Len(cache)

====
